---- MODULE Spec2Model ----
(***************************************************************************)
(* Interrupt-driven UART library with receive/transmit circular buffers.   *)
(*                                                                         *)
(* The main context is a sequential program whose position is pc; it runs  *)
(* the library functions one volatile access at a time.  The two interrupt *)
(* service routines run with interrupts disabled (AVR clears the global    *)
(* interrupt flag on entry), so each is one atomic action that may preempt *)
(* the main context between any two of its steps.                          *)
(*                                                                         *)
(* rxEnq, rxOut, rxDropped, nRx, txIn, txOut, nPut, flushed, flushFresh,   *)
(* getSnap, lastRec, strArg and ret are history variables: they record what the hardware    *)
(* presented, what the handlers stored and what the calls returned; no     *)
(* code reads them.                                                        *)
(***************************************************************************)
EXTENDS Integers, Sequences, FiniteSets, TLC

\* ---------------------------------------------------------------- bounds
\* number of receive events the hardware presents
MaxRx == 5
\* number of bytes handed to UART_CharPutNonBlocking
MaxPut == 5
\* ... and of the two together when a run has both
MaxMixed == 2

\* the runs explored: r receive events and p bytes put
Explored(r, p) ==
    /\ r <= MaxRx /\ p <= MaxPut
    /\ r = 0 \/ p = 0 \/ r + p <= MaxMixed

\* ------------------------------------------------------------- constants
\* uart.h lets config.h choose the sizes (#ifndef); 4 is the smallest power
\* of two with more than one usable slot.
UART_RX_BUFFER_SIZE == 4
UART_TX_BUFFER_SIZE == 4
UART_RX_BUFFER_MASK == UART_RX_BUFFER_SIZE - 1
UART_TX_BUFFER_MASK == UART_TX_BUFFER_SIZE - 1

UART_FRAME_ERROR == 2048
UART_OVERRUN_ERROR == 1024
UART_BUFFER_OVERFLOW == 512
UART_NO_DATA == 256

\* bit numbers of the status register (ATmega16)
FE == 4
DOR == 3

\* data bytes the hardware presents / the application sends
Bytes == {65, 66}
\* values of the status register at a receive event: RXC alone, with FE,
\* with DOR, with both
UsrValues == {128, 144, 136, 152}
\* null-terminated strings handed to UART_StringPutNonBlocking
Strings == {<<0>>, <<65, 0>>, <<66, 65, 0>>, <<65, 66, 66, 65, 0>>}

\* ------------------------------------------------------------ arithmetic
RECURSIVE Pow2(_)
Pow2(n) == IF n = 0 THEN 1 ELSE 2 * Pow2(n - 1)

\* C's a & b on non-negative integers
RECURSIVE BitAnd(_, _)
BitAnd(a, b) ==
    IF a = 0 \/ b = 0 THEN 0
    ELSE (IF a % 2 = 1 /\ b % 2 = 1 THEN 1 ELSE 0) + 2 * BitAnd(a \div 2, b \div 2)

\* C's a >> n and a << n (no width truncation)
Shr(a, n) == a \div Pow2(n)
Shl(a, n) == a * Pow2(n)

IsPrefix(s, t) == Len(s) <= Len(t) /\ SubSeq(t, 1, Len(s)) = s

\* ----------------------------------------------------------------- state
VARIABLES
    UART_TxBuf, UART_RxBuf,
    UART_TxHead, UART_TxTail, UART_RxHead, UART_RxTail,
    UART_LastRxError,
    UART_CONTROL,       \* set of the bits set in UCSRB
    SREG_I,             \* global interrupt enable
    pc,                 \* position of the main context
    tmphead, tmptail, data, ctrl, caller, s,   \* locals of the main context,
                        \* back to their initial value when their function returns
    ret,                \* [op, val]: last call that returned and its value
    rxEnq, rxOut, rxDropped, nRx, flushed, flushFresh, getSnap, lastRec,
    dropPending,
    txIn, txOut, nPut, strArg

rxvars == <<UART_RxBuf, UART_RxHead, UART_RxTail, UART_LastRxError>>
txvars == <<UART_TxBuf, UART_TxHead, UART_TxTail>>
locals == <<tmphead, tmptail, data, ctrl, caller, s>>
rxhist == <<rxEnq, rxOut, rxDropped, nRx, flushed, flushFresh, getSnap, lastRec,
           dropPending>>
txhist == <<txIn, txOut, nPut, strArg>>
vars == <<rxvars, txvars, UART_CONTROL, SREG_I, pc, locals, ret, rxhist, txhist>>

\* flushed: UART_FlushBuffer has been called; flushFresh: and no receive
\* interrupt has run since its last call.
\* getSnap, while a get that found a byte is in progress: ov, whether it
\* started on a full buffer whose last receive event was a drop; drop, whether
\* it is the first get to start after a drop, with no flush since; rx, whether a
\* receive interrupt has run since it started; late, whether one has run
\* since it advanced the tail.
\* lastRec: what the last receive event recorded: a framing error or a data
\* overrun of a byte it stored, or the overflow that made it drop the byte.
\* dropPending: the receive handler has dropped a byte and no get has
\* started and no flush has been called since.
\* strArg: the argument of the UART_StringPutNonBlocking call in progress.
NoSnap == [ov |-> FALSE, drop |-> FALSE, rx |-> FALSE, late |-> FALSE]
NoRec == [fe |-> FALSE, dor |-> FALSE, ovf |-> FALSE]
GetPcs == {"get_tail", "get_data", "get_ret"}

\* static storage is zero-initialised; interrupts are off at reset
Init ==
    /\ UART_TxBuf = [i \in 0..UART_TX_BUFFER_MASK |-> 0]
    /\ UART_RxBuf = [i \in 0..UART_RX_BUFFER_MASK |-> 0]
    /\ UART_TxHead = 0 /\ UART_TxTail = 0
    /\ UART_RxHead = 0 /\ UART_RxTail = 0
    /\ UART_LastRxError = 0
    /\ UART_CONTROL = {}
    /\ SREG_I = FALSE
    /\ pc = "start"
    /\ tmphead = 0 /\ tmptail = 0 /\ data = 0 /\ ctrl = {}
    /\ caller = "main" /\ s = <<>>
    /\ ret = [op |-> "none", val |-> 0]
    /\ rxEnq = <<>> /\ rxOut = <<>> /\ rxDropped = 0 /\ nRx = 0
    /\ flushed = FALSE /\ flushFresh = FALSE
    /\ getSnap = NoSnap /\ lastRec = NoRec /\ dropPending = FALSE
    /\ txIn = <<>> /\ txOut = <<>> /\ nPut = 0 /\ strArg = <<>>


\* ------------------------------------------------------ index arithmetic
RxNextIndex(i) == BitAnd(i + 1, UART_RX_BUFFER_MASK)
TxNextIndex(i) == BitAnd(i + 1, UART_TX_BUFFER_MASK)

\* usr & ((1<<FE)|(1<<DOR)); the two bits are distinct, so | is +
RxErrorBits(usr) == BitAnd(usr, Shl(1, FE) + Shl(1, DOR))

\* bit n of the status register is set
StatusBit(usr, n) == (usr \div Pow2(n)) % 2 = 1

\* the overflow test with the wrong index on its right-hand side
RxOverflow_Head(nexthead, tail) == nexthead = UART_RxHead

\* the overflow test of the receive handler
RxOverflow(nexthead, tail) == nexthead = tail

\* a receive handler that records the status bits also when it drops the byte
RxISR_NoOverflowCode(usr, d) ==
    LET hwError == RxErrorBits(usr)
        nexthead == RxNextIndex(UART_RxHead)
    IN  /\ SREG_I /\ "RXCIE" \in UART_CONTROL
        /\ Explored(nRx + 1, nPut)
        /\ nRx' = nRx + 1
        /\ IF RxOverflow(nexthead, UART_RxTail)
           THEN /\ UART_LastRxError' = hwError
                /\ rxDropped' = rxDropped + 1
                /\ UNCHANGED <<UART_RxHead, UART_RxBuf, rxEnq>>
           ELSE /\ UART_RxHead' = nexthead
                /\ UART_RxBuf' = [UART_RxBuf EXCEPT ![nexthead] = d]
                /\ UART_LastRxError' = hwError
                /\ rxEnq' = Append(rxEnq, d)
                /\ UNCHANGED rxDropped
        /\ getSnap' = IF pc \in GetPcs
                      THEN [getSnap EXCEPT !.rx = TRUE,
                                           !.late = pc \in {"get_data", "get_ret"}
                                                    \/ getSnap.late]
                      ELSE getSnap
        /\ lastRec' = LET stored == UART_RxHead' # UART_RxHead
                      IN  [fe |-> stored /\ StatusBit(usr, FE),
                           dor |-> stored /\ StatusBit(usr, DOR),
                           ovf |-> ~stored]
        /\ flushFresh' = FALSE
        /\ dropPending' = (dropPending \/ UART_RxHead' = UART_RxHead)
        /\ UNCHANGED <<UART_RxTail, txvars, UART_CONTROL, SREG_I, pc, locals, ret,
                       rxOut, flushed, txhist>>

\* a receive handler that stores the byte at the index it has not advanced yet
RxISR_StoreAtOldHead(usr, d) ==
    LET hwError == RxErrorBits(usr)
        nexthead == RxNextIndex(UART_RxHead)
    IN  /\ SREG_I /\ "RXCIE" \in UART_CONTROL
        /\ Explored(nRx + 1, nPut)
        /\ nRx' = nRx + 1
        /\ IF RxOverflow(nexthead, UART_RxTail)
           THEN /\ UART_LastRxError' = Shr(UART_BUFFER_OVERFLOW, 8)
                /\ rxDropped' = rxDropped + 1
                /\ UNCHANGED <<UART_RxHead, UART_RxBuf, rxEnq>>
           ELSE /\ UART_RxHead' = nexthead
                /\ UART_RxBuf' = [UART_RxBuf EXCEPT ![UART_RxHead] = d]
                /\ UART_LastRxError' = hwError
                /\ rxEnq' = Append(rxEnq, d)
                /\ UNCHANGED rxDropped
        /\ getSnap' = IF pc \in GetPcs
                      THEN [getSnap EXCEPT !.rx = TRUE,
                                           !.late = pc \in {"get_data", "get_ret"}
                                                    \/ getSnap.late]
                      ELSE getSnap
        /\ lastRec' = LET stored == UART_RxHead' # UART_RxHead
                      IN  [fe |-> stored /\ StatusBit(usr, FE),
                           dor |-> stored /\ StatusBit(usr, DOR),
                           ovf |-> ~stored]
        /\ flushFresh' = FALSE
        /\ dropPending' = (dropPending \/ UART_RxHead' = UART_RxHead)
        /\ UNCHANGED <<UART_RxTail, txvars, UART_CONTROL, SREG_I, pc, locals, ret,
                       rxOut, flushed, txhist>>

\* ------------------------------------------------- interrupt handlers
\* ISR(UART_RECEIVE_INTERRUPT): the hardware presents status usr and byte d
RxISR(usr, d) ==
    LET hwError == RxErrorBits(usr)
        nexthead == RxNextIndex(UART_RxHead)
    IN  /\ SREG_I /\ "RXCIE" \in UART_CONTROL
        /\ Explored(nRx + 1, nPut)
        /\ nRx' = nRx + 1
        /\ IF RxOverflow(nexthead, UART_RxTail)
           THEN /\ UART_LastRxError' = Shr(UART_BUFFER_OVERFLOW, 8)
                /\ rxDropped' = rxDropped + 1
                /\ UNCHANGED <<UART_RxHead, UART_RxBuf, rxEnq>>
           ELSE /\ UART_RxHead' = nexthead
                /\ UART_RxBuf' = [UART_RxBuf EXCEPT ![nexthead] = d]
                /\ UART_LastRxError' = hwError
                /\ rxEnq' = Append(rxEnq, d)
                /\ UNCHANGED rxDropped
        /\ getSnap' = IF pc \in GetPcs
                      THEN [getSnap EXCEPT !.rx = TRUE,
                                           !.late = pc \in {"get_data", "get_ret"}
                                                    \/ getSnap.late]
                      ELSE getSnap
        /\ lastRec' = LET stored == UART_RxHead' # UART_RxHead
                      IN  [fe |-> stored /\ StatusBit(usr, FE),
                           dor |-> stored /\ StatusBit(usr, DOR),
                           ovf |-> ~stored]
        /\ flushFresh' = FALSE
        /\ dropPending' = (dropPending \/ UART_RxHead' = UART_RxHead)
        /\ UNCHANGED <<UART_RxTail, txvars, UART_CONTROL, SREG_I, pc, locals, ret,
                       rxOut, flushed, txhist>>

UART_RECEIVE_INTERRUPT == \E usr \in UsrValues, d \in Bytes : RxISR(usr, d)

\* the transmit handler without its test for an empty buffer
UART_TRANSMIT_INTERRUPT_NoEmptyCheck ==
    /\ SREG_I /\ "UDRIE" \in UART_CONTROL
    /\ LET nexttail == BitAnd(UART_TxTail + 1, UART_TX_BUFFER_MASK)
       IN  /\ UART_TxTail' = nexttail
           /\ txOut' = Append(txOut, UART_TxBuf[nexttail])
    /\ UNCHANGED <<UART_TxBuf, UART_TxHead, UART_CONTROL, rxvars, SREG_I, pc, locals,
                   ret, rxhist, txIn, nPut, strArg>>

\* a transmit handler that disables its interrupt after every byte
UART_TRANSMIT_INTERRUPT_AlwaysDisable ==
    /\ SREG_I /\ "UDRIE" \in UART_CONTROL
    /\ IF UART_TxHead # UART_TxTail
       THEN LET nexttail == TxNextIndex(UART_TxTail)
            IN  /\ UART_TxTail' = nexttail
                /\ txOut' = Append(txOut, UART_TxBuf[nexttail])
                /\ UART_CONTROL' = UART_CONTROL \ {"UDRIE"}
       ELSE /\ UART_CONTROL' = UART_CONTROL \ {"UDRIE"}
            /\ UNCHANGED <<UART_TxTail, txOut>>
    /\ UNCHANGED <<UART_TxBuf, UART_TxHead, rxvars, SREG_I, pc, locals, ret,
                   rxhist, txIn, nPut, strArg>>

\* a transmit handler that leaves its interrupt on when the buffer is empty
UART_TRANSMIT_INTERRUPT_NeverDisable ==
    /\ SREG_I /\ "UDRIE" \in UART_CONTROL
    /\ IF UART_TxHead # UART_TxTail
       THEN LET nexttail == TxNextIndex(UART_TxTail)
            IN  /\ UART_TxTail' = nexttail
                /\ txOut' = Append(txOut, UART_TxBuf[nexttail])
       ELSE UNCHANGED <<UART_TxTail, txOut>>
    /\ UNCHANGED <<UART_TxBuf, UART_TxHead, UART_CONTROL, rxvars, SREG_I, pc, locals,
                   ret, rxhist, txIn, nPut, strArg>>

\* ISR(UART_TRANSMIT_INTERRUPT): data register empty
UART_TRANSMIT_INTERRUPT ==
    /\ SREG_I /\ "UDRIE" \in UART_CONTROL
    /\ IF UART_TxHead # UART_TxTail
       THEN LET nexttail == TxNextIndex(UART_TxTail)
            IN  /\ UART_TxTail' = nexttail
                /\ txOut' = Append(txOut, UART_TxBuf[nexttail])
                /\ UNCHANGED UART_CONTROL
       ELSE /\ UART_CONTROL' = UART_CONTROL \ {"UDRIE"}
            /\ UNCHANGED <<UART_TxTail, txOut>>
    /\ UNCHANGED <<UART_TxBuf, UART_TxHead, rxvars, SREG_I, pc, locals, ret,
                   rxhist, txIn, nPut, strArg>>

\* ------------------------------------------------------------ UART_Init
\* zero the four indices
UART_Init_Indices ==
    /\ pc = "start"
    /\ UART_TxHead' = 0 /\ UART_TxTail' = 0
    /\ UART_RxHead' = 0 /\ UART_RxTail' = 0
    /\ pc' = "init_control"
    /\ UNCHANGED <<UART_TxBuf, UART_RxBuf, UART_LastRxError, UART_CONTROL, SREG_I,
                   locals, ret, rxhist, txhist>>

\* an initialisation that also enables the transmit-ready interrupt
UART_Init_Control_Udrie ==
    /\ pc = "init_control"
    /\ UART_CONTROL' = {"RXCIE", "RXEN", "TXEN", "UDRIE"}
    /\ pc' = "init_sei"
    /\ UNCHANGED <<rxvars, txvars, SREG_I, locals, ret, rxhist, txhist>>

\* UART_CONTROL = (1<<RXCIE)|(1<<RXEN)|(1<<TXEN)
UART_Init_Control ==
    /\ pc = "init_control"
    /\ UART_CONTROL' = {"RXCIE", "RXEN", "TXEN"}
    /\ pc' = "init_sei"
    /\ UNCHANGED <<rxvars, txvars, SREG_I, locals, ret, rxhist, txhist>>

\* sei()
UART_Init_Sei ==
    /\ pc = "init_sei"
    /\ SREG_I' = TRUE
    /\ pc' = "idle"
    /\ ret' = [op |-> "init", val |-> 0]
    /\ UNCHANGED <<rxvars, txvars, UART_CONTROL, locals, rxhist, txhist>>

\* ---------------------------------------------- UART_CharGetNonBlocking
\* the result without the shift of the error byte
GetResult_NoShift(err, d) == (err + d) % 65536

\* (UART_LastRxError << 8) + data, as unsigned int
GetResult(err, d) == (Shl(err, 8) + d) % 65536

\* the slot read before the tail was advanced
GetSlot_Stale(newtail) == BitAnd(newtail + UART_RX_BUFFER_MASK, UART_RX_BUFFER_MASK)

\* the slot the consumer reads after advancing the tail to newtail
GetSlot(newtail) == newtail

\* get without its test for an empty buffer
CharGet_Check_NoTest ==
    /\ pc = "idle"
    /\ pc' = "get_tail"
    /\ getSnap' = NoSnap
    /\ dropPending' = FALSE
    /\ UNCHANGED <<rxvars, txvars, UART_CONTROL, SREG_I, locals, ret, rxEnq, rxOut,
                   rxDropped, nRx, flushed, flushFresh, lastRec, txhist>>

\* if ( UART_RxHead == UART_RxTail ) return UART_NO_DATA;
CharGet_Check ==
    /\ pc = "idle"
    /\ IF UART_RxHead = UART_RxTail
       THEN /\ ret' = [op |-> "get", val |-> UART_NO_DATA]
            /\ pc' = "idle"
       ELSE /\ pc' = "get_tail"
            /\ UNCHANGED ret
    /\ getSnap' = IF UART_RxHead = UART_RxTail THEN NoSnap
                  ELSE [ov |-> /\ RxNextIndex(UART_RxHead) = UART_RxTail
                               /\ UART_LastRxError = Shr(UART_BUFFER_OVERFLOW, 8),
                        drop |-> dropPending, rx |-> FALSE, late |-> FALSE]
    /\ dropPending' = FALSE
    /\ UNCHANGED <<rxvars, txvars, UART_CONTROL, SREG_I, locals, rxEnq, rxOut,
                   rxDropped, nRx, flushed, flushFresh, lastRec, txhist>>

\* get that computes the new index and does not store it
CharGet_Tail_NoStore ==
    /\ pc = "get_tail"
    /\ tmptail' = BitAnd(UART_RxTail + 1, UART_RX_BUFFER_MASK)
    /\ pc' = "get_data"
    /\ UNCHANGED <<rxvars, txvars, UART_CONTROL, SREG_I, tmphead, data, ctrl, caller,
                   s, ret, rxhist, txhist>>

\* tmptail = (UART_RxTail + 1) & UART_RX_BUFFER_MASK; UART_RxTail = tmptail;
CharGet_Tail ==
    /\ pc = "get_tail"
    /\ tmptail' = RxNextIndex(UART_RxTail)
    /\ UART_RxTail' = tmptail'
    /\ pc' = "get_data"
    /\ UNCHANGED <<UART_RxBuf, UART_RxHead, UART_LastRxError, txvars, UART_CONTROL,
                   SREG_I, tmphead, data, ctrl, caller, s, ret, rxhist, txhist>>

\* data = UART_RxBuf[tmptail];
CharGet_Data ==
    /\ pc = "get_data"
    /\ data' = UART_RxBuf[GetSlot(tmptail)]
    /\ pc' = "get_ret"
    /\ UNCHANGED <<rxvars, txvars, UART_CONTROL, SREG_I, tmphead, tmptail, ctrl,
                   caller, s, ret, rxhist, txhist>>

\* return (UART_LastRxError << 8) + data;
\* a return that clears the error scalar once it has been read
CharGet_Return_Clear ==
    /\ pc = "get_ret"
    /\ ret' = [op |-> "get", val |-> GetResult(UART_LastRxError, data)]
    /\ UART_LastRxError' = 0
    /\ rxOut' = Append(rxOut, BitAnd(ret'.val, 255))
    /\ pc' = "idle"
    /\ tmptail' = 0 /\ data' = 0
    /\ getSnap' = NoSnap
    /\ UNCHANGED <<UART_RxBuf, UART_RxHead, UART_RxTail, txvars, UART_CONTROL, SREG_I,
                   tmphead, ctrl, caller, s, rxEnq, rxDropped, nRx, flushed,
                   flushFresh, lastRec, dropPending, txhist>>

CharGet_Return ==
    /\ pc = "get_ret"
    /\ ret' = [op |-> "get", val |-> GetResult(UART_LastRxError, data)]
    /\ rxOut' = Append(rxOut, BitAnd(ret'.val, 255))
    /\ pc' = "idle"
    /\ tmptail' = 0 /\ data' = 0
    /\ getSnap' = NoSnap
    /\ UNCHANGED <<rxvars, txvars, UART_CONTROL, SREG_I, tmphead, ctrl, caller, s,
                   rxEnq, rxDropped, nRx, flushed, flushFresh, lastRec, dropPending,
                   txhist>>

\* ------------------------------------------------------- UART_CharsAvail
CharsAvailValue(head, tail) ==
    (UART_RX_BUFFER_MASK + head - tail) % UART_RX_BUFFER_MASK

UART_CharsAvail ==
    /\ pc = "idle"
    /\ ret' = [op |-> "avail", val |-> CharsAvailValue(UART_RxHead, UART_RxTail)]
    /\ UNCHANGED <<rxvars, txvars, UART_CONTROL, SREG_I, pc, locals, rxhist, txhist>>

\* ------------------------------------------------------ UART_FlushBuffer
\* a flush that zeroes the head instead of copying the tail
UART_FlushBuffer_Zero ==
    /\ pc = "idle"
    /\ UART_RxHead' = 0
    /\ ret' = [op |-> "flush", val |-> 0]
    /\ rxEnq' = rxOut
    /\ flushed' = TRUE
    /\ flushFresh' = TRUE
    /\ dropPending' = FALSE
    /\ UNCHANGED <<UART_RxBuf, UART_RxTail, UART_LastRxError, txvars, UART_CONTROL,
                   SREG_I, pc, locals, rxOut, rxDropped, nRx, getSnap, lastRec,
                   txhist>>

\* UART_RxHead = UART_RxTail; the bytes enqueued and not yet returned are
\* discarded, so they leave the history of bytes a get may still return
UART_FlushBuffer ==
    /\ pc = "idle"
    /\ UART_RxHead' = UART_RxTail
    /\ ret' = [op |-> "flush", val |-> 0]
    /\ rxEnq' = rxOut
    /\ flushed' = TRUE
    /\ flushFresh' = TRUE
    /\ dropPending' = FALSE
    /\ UNCHANGED <<UART_RxBuf, UART_RxTail, UART_LastRxError, txvars, UART_CONTROL,
                   SREG_I, pc, locals, rxOut, rxDropped, nRx, getSnap, lastRec,
                   txhist>>

\* ---------------------------------------------- UART_CharPutNonBlocking
\* tmphead = (UART_TxHead + 1) & UART_TX_BUFFER_MASK;
CharPut_Calc ==
    /\ pc = "put_calc"
    /\ tmphead' = TxNextIndex(UART_TxHead)
    /\ pc' = "put_wait"
    /\ UNCHANGED <<rxvars, txvars, UART_CONTROL, SREG_I, tmptail, data, ctrl,
                   caller, s, ret, rxhist, txhist>>

\* the busy-wait test against the wrong index
PutMustWait_Head(nexthead, tail) == nexthead = UART_TxHead

\* the busy-wait test
PutMustWait(nexthead, tail) == nexthead = tail

\* while ( tmphead == UART_TxTail ) ;   one evaluation of the test
CharPut_Wait ==
    /\ pc = "put_wait"
    /\ pc' = IF PutMustWait(tmphead, UART_TxTail) THEN "put_wait" ELSE "put_store"
    /\ UNCHANGED <<rxvars, txvars, UART_CONTROL, SREG_I, locals, ret, rxhist, txhist>>

\* UART_TxBuf[tmphead] = data;
CharPut_Store ==
    /\ pc = "put_store"
    /\ UART_TxBuf' = [UART_TxBuf EXCEPT ![tmphead] = data]
    /\ pc' = "put_head"
    /\ UNCHANGED <<rxvars, UART_TxHead, UART_TxTail, UART_CONTROL, SREG_I, locals,
                   ret, rxhist, txhist>>

\* UART_TxHead = tmphead;
CharPut_Head ==
    /\ pc = "put_head"
    /\ UART_TxHead' = tmphead
    /\ pc' = "put_rdctl"
    /\ UNCHANGED <<rxvars, UART_TxBuf, UART_TxTail, UART_CONTROL, SREG_I, locals,
                   ret, rxhist, txhist>>

\* UART_CONTROL |= (1<<UART_UDRIE);   the read of the read-modify-write
CharPut_ReadControl ==
    /\ pc = "put_rdctl"
    /\ ctrl' = UART_CONTROL
    /\ pc' = "put_wrctl"
    /\ UNCHANGED <<rxvars, txvars, UART_CONTROL, SREG_I, tmphead, tmptail, data,
                   caller, s, ret, rxhist, txhist>>

\* the write of the read-modify-write without the UDRIE bit
CharPut_WriteControl_NoEnable ==
    /\ pc = "put_wrctl"
    /\ UART_CONTROL' = ctrl
    /\ IF caller = "string"
       THEN pc' = "str_loop" /\ UNCHANGED ret
       ELSE pc' = "idle" /\ ret' = [op |-> "put", val |-> 0]
    /\ tmphead' = 0 /\ data' = 0 /\ ctrl' = {}
    /\ UNCHANGED <<rxvars, txvars, SREG_I, tmptail, caller, s, rxhist, txhist>>

\* ... and its write; the function returns to its caller
CharPut_WriteControl ==
    /\ pc = "put_wrctl"
    /\ UART_CONTROL' = ctrl \cup {"UDRIE"}
    /\ IF caller = "string"
       THEN pc' = "str_loop" /\ UNCHANGED ret
       ELSE pc' = "idle" /\ ret' = [op |-> "put", val |-> 0]
    /\ tmphead' = 0 /\ data' = 0 /\ ctrl' = {}
    /\ UNCHANGED <<rxvars, txvars, SREG_I, tmptail, caller, s, rxhist, txhist>>

\* the application calls UART_CharPutNonBlocking(d)
CharPut_Call(d) ==
    /\ pc = "idle"
    /\ Explored(nRx, nPut + 1)
    /\ data' = d
    /\ caller' = "main"
    /\ txIn' = Append(txIn, d)
    /\ nPut' = nPut + 1
    /\ pc' = "put_calc"
    /\ UNCHANGED <<rxvars, txvars, UART_CONTROL, SREG_I, tmphead, tmptail, ctrl, s,
                   ret, rxhist, txOut, strArg>>

UART_CharPutNonBlocking == \E d \in Bytes : CharPut_Call(d)

\* -------------------------------------------- UART_StringPutNonBlocking
\* the application calls UART_StringPutNonBlocking(str); nPut counts the
\* characters of the string from the call on
StringPut_Call(str) ==
    /\ pc = "idle"
    /\ Explored(nRx, nPut + Len(str) - 1)
    /\ s' = str
    /\ strArg' = str
    /\ nPut' = nPut + Len(str) - 1
    /\ pc' = "str_loop"
    /\ UNCHANGED <<rxvars, txvars, UART_CONTROL, SREG_I, tmphead, tmptail, data,
                   ctrl, caller, ret, rxhist, txIn, txOut>>

UART_StringPutNonBlocking == \E str \in Strings : StringPut_Call(str)

\* the loop with its test after the call: the terminator is sent as well
StringPut_Loop_SendsNul ==
    /\ pc = "str_loop"
    /\ IF s # <<>>
       THEN /\ data' = Head(s)
            /\ s' = Tail(s)
            /\ caller' = "string"
            /\ txIn' = Append(txIn, Head(s))
            /\ pc' = "put_calc"
            /\ UNCHANGED <<ret, strArg>>
       ELSE /\ pc' = "idle"
            /\ caller' = "main"
            /\ ret' = [op |-> "puts", val |-> 0]
            /\ s' = <<>>
            /\ strArg' = <<>>
            /\ UNCHANGED <<data, txIn>>
    /\ UNCHANGED <<nPut, rxvars, txvars, UART_CONTROL, SREG_I, tmphead, tmptail, ctrl,
                   rxhist, txOut>>

\* while (*s) UART_CharPutNonBlocking(*s++);
StringPut_Loop ==
    /\ pc = "str_loop"
    /\ IF Head(s) # 0
       THEN /\ data' = Head(s)
            /\ s' = Tail(s)
            /\ caller' = "string"
            /\ txIn' = Append(txIn, Head(s))
            /\ pc' = "put_calc"
            /\ UNCHANGED <<ret, strArg>>
       ELSE /\ pc' = "idle"
            /\ caller' = "main"
            /\ ret' = [op |-> "puts", val |-> 0]
            /\ s' = <<>>
            /\ strArg' = <<>>
            /\ UNCHANGED <<data, txIn>>
    /\ UNCHANGED <<nPut, rxvars, txvars, UART_CONTROL, SREG_I, tmphead, tmptail, ctrl,
                   rxhist, txOut>>

\* --------------------------------------------------------- specifications
PutSteps ==
    \/ CharPut_Calc \/ CharPut_Wait \/ CharPut_Store \/ CharPut_Head
    \/ CharPut_ReadControl \/ CharPut_WriteControl

Next ==
    \/ UART_Init_Indices \/ UART_Init_Control \/ UART_Init_Sei
    \/ UART_RECEIVE_INTERRUPT
    \/ UART_TRANSMIT_INTERRUPT
    \/ CharGet_Check \/ CharGet_Tail \/ CharGet_Data \/ CharGet_Return
    \/ UART_CharsAvail
    \/ UART_FlushBuffer
    \/ UART_CharPutNonBlocking
    \/ CharPut_Calc \/ CharPut_Wait \/ CharPut_Store \/ CharPut_Head
    \/ CharPut_ReadControl \/ CharPut_WriteControl
    \/ UART_StringPutNonBlocking \/ StringPut_Loop

Spec == Init /\ [][Next]_vars

\* the transmit side alone: the transmit handler against put and string put
NextTx ==
    \/ UART_Init_Indices \/ UART_Init_Control \/ UART_Init_Sei
    \/ UART_TRANSMIT_INTERRUPT
    \/ UART_CharPutNonBlocking
    \/ CharPut_Calc \/ CharPut_Wait \/ CharPut_Store \/ CharPut_Head
    \/ CharPut_ReadControl \/ CharPut_WriteControl
    \/ UART_StringPutNonBlocking \/ StringPut_Loop

\* the main context keeps executing, and a transmit-ready interrupt that stays
\* enabled is eventually serviced
FairTx ==
    /\ Init /\ [][NextTx]_vars
    /\ WF_vars(UART_Init_Indices \/ UART_Init_Control \/ UART_Init_Sei)
    /\ WF_vars(PutSteps)
    /\ WF_vars(StringPut_Loop)
    /\ WF_vars(UART_TRANSMIT_INTERRUPT)


\* ------------------------------------------------------------ properties
\* bytes the receive handler stored that no get has taken out of the buffer
RxLive == Len(rxEnq) - Len(rxOut) - (IF pc \in {"get_data", "get_ret"} THEN 1 ELSE 0)

\* bytes of put calls whose head store has happened
TxPublished ==
    Len(txIn) - (IF pc \in {"put_calc", "put_wait", "put_store", "put_head"} THEN 1 ELSE 0)

\* bytes published to the transmit buffer and not yet written to UART_DATA
TxLive == TxPublished - Len(txOut)

PutPcs == {"put_calc", "put_wait", "put_store", "put_head", "put_rdctl", "put_wrctl"}

\* C1: receive FIFO.  With no flush, the bytes returned by the successful
\* gets are a prefix of the bytes the receive handler stored, in order; when
\* no get is in progress the buffer is empty (the next get returns
\* UART_NO_DATA) exactly when every stored byte has been returned.
C1_ReceiveFifo ==
    ~flushed =>
        /\ IsPrefix(rxOut, rxEnq)
        /\ pc = "idle" => ((UART_RxHead = UART_RxTail) <=> (rxOut = rxEnq))

\* four bytes went through the four slots in order and the fifth get found
\* nothing
C1_Witness ==
    /\ ~flushed /\ pc = "idle"
    /\ Len(rxOut) = 4 /\ rxOut = rxEnq /\ rxOut[1] # rxOut[2] /\ rxDropped = 0
    /\ ret = [op |-> "get", val |-> UART_NO_DATA]

\* C2: transmit FIFO.  The bytes written to UART_DATA are a prefix of the
\* bytes passed to UART_CharPutNonBlocking, never more than the puts have
\* published (no write from an empty buffer), and all of them once the
\* buffer is empty with no put in progress.
C2_TransmitFifo ==
    /\ IsPrefix(txOut, txIn)
    /\ Len(txOut) <= TxPublished
    /\ (pc = "idle" /\ UART_TxHead = UART_TxTail) => txOut = txIn

C2_Witness ==
    /\ pc = "idle" /\ Len(txOut) = 4 /\ txOut = txIn /\ txOut[1] # txOut[2]
    /\ "UDRIE" \notin UART_CONTROL

\* C3: capacity.  For each buffer the number of bytes stored and not yet
\* consumed is (head - tail) mod C and at most C-1 (so no producer step moved
\* head onto tail), and a put is past its busy-wait only when a slot is free.
C3_Capacity ==
    /\ RxLive = (UART_RxHead - UART_RxTail) % UART_RX_BUFFER_SIZE
    /\ RxLive <= UART_RX_BUFFER_SIZE - 1
    /\ TxLive = (UART_TxHead - UART_TxTail) % UART_TX_BUFFER_SIZE
    /\ TxLive <= UART_TX_BUFFER_SIZE - 1
    /\ pc \in {"put_store", "put_head"} => TxLive <= UART_TX_BUFFER_SIZE - 2
    /\ (pc \in {"put_calc", "put_wait"} /\ TxLive = UART_TX_BUFFER_SIZE - 1)
           => TxNextIndex(UART_TxHead) = UART_TxTail

\* a put spins on a full transmit buffer whose head has wrapped below its tail
C3_Witness ==
    /\ pc = "put_wait" /\ tmphead = UART_TxTail
    /\ TxLive = UART_TX_BUFFER_SIZE - 1
    /\ UART_TxHead < UART_TxTail

\* C4: UART_CharsAvail returns (RxHead - RxTail) mod UART_RX_BUFFER_SIZE, the
\* number of buffered, unread bytes.
C4_CharsAvailCount ==
    [][UART_CharsAvail =>
         ret'.val = (UART_RxHead - UART_RxTail) % UART_RX_BUFFER_SIZE]_vars

\* C5: flush empties the receive buffer.  After a flush and before any
\* further receive interrupt the buffer is empty, UART_CharsAvail returns 0
\* and get returns UART_NO_DATA; the bytes a flush discarded are never
\* returned: the gets return a prefix of the stored bytes that were not
\* discarded.
C5_FlushEmpties ==
    /\ IsPrefix(rxOut, rxEnq)
    /\ flushFresh =>
        /\ pc \notin GetPcs
        /\ UART_RxHead = UART_RxTail
        /\ ret.op = "avail" => ret.val = 0
        /\ ret.op = "get" => ret.val = UART_NO_DATA

\* four bytes stored, one returned, then a flush of the three left (head
\* wrapped below tail) and a UART_CharsAvail
C5_Witness ==
    /\ flushFresh /\ nRx = 4 /\ rxDropped = 0 /\ Len(rxOut) = 1
    /\ UART_RxTail = 1
    /\ ret = [op |-> "avail", val |-> 0]

\* C6: UART_FlushBuffer sets the receive tail to the receive head and
\* writes nothing else: not the head, the storage, the error scalar or the
\* transmit side.
C6_FlushWritesOnlyTail ==
    [][UART_FlushBuffer =>
         /\ UART_RxTail' = UART_RxHead
         /\ UART_RxHead' = UART_RxHead
         /\ UNCHANGED <<UART_RxBuf, UART_LastRxError, txvars>>]_vars

\* C7: a receive event on a full buffer leaves head, tail and storage
\* unchanged and sets the error scalar to the overflow code; any other
\* receive event advances head by one and writes that slot alone; every
\* event is exactly one of the two.
C7_OverflowDrops ==
    [][nRx' # nRx =>
         IF RxNextIndex(UART_RxHead) = UART_RxTail
         THEN /\ UNCHANGED <<UART_RxHead, UART_RxTail, UART_RxBuf, rxEnq>>
              /\ Shl(UART_LastRxError', 8) = UART_BUFFER_OVERFLOW
              /\ rxDropped' = rxDropped + 1
         ELSE /\ UART_RxHead' = RxNextIndex(UART_RxHead)
              /\ UART_RxTail' = UART_RxTail
              /\ \A i \in 0..UART_RX_BUFFER_MASK :
                     i # UART_RxHead' => UART_RxBuf'[i] = UART_RxBuf[i]
              /\ rxEnq' = Append(rxEnq, UART_RxBuf'[UART_RxHead'])
              /\ UART_LastRxError' \in
                     {0, Shl(1, DOR), Shl(1, FE), Shl(1, FE) + Shl(1, DOR)}
              /\ rxDropped' = rxDropped]_vars

\* two bytes dropped on a full buffer
C7_Witness ==
    /\ rxDropped = 2 /\ RxLive = UART_RX_BUFFER_SIZE - 1
    /\ Shl(UART_LastRxError, 8) = UART_BUFFER_OVERFLOW

\* C8: overflow is visible to the next get and keeps the order.  Until
\* the first get or flush, the first C-1 bytes received are stored in arrival
\* order and the rest dropped; and a get that starts on a full buffer whose
\* last receive event was a drop, and that no receive interrupt preempts,
\* returns the oldest stored byte with the overflow flag.
C8_OverflowVisible ==
    /\ [](~flushed /\ rxOut = <<>> /\ pc \notin GetPcs =>
            /\ Len(rxEnq) = (IF nRx < UART_RX_BUFFER_SIZE - 1 THEN nRx
                             ELSE UART_RX_BUFFER_SIZE - 1)
            /\ rxDropped = nRx - Len(rxEnq)
            /\ \A i \in 1..Len(rxEnq) : UART_RxBuf[i] = rxEnq[i]
            /\ nRx > UART_RX_BUFFER_SIZE - 1 =>
                   Shl(UART_LastRxError, 8) = UART_BUFFER_OVERFLOW)
    /\ [][(CharGet_Return /\ getSnap.ov /\ ~getSnap.rx) =>
            ret'.val = UART_BUFFER_OVERFLOW + rxEnq[Len(rxOut) + 1]]_vars

\* five bytes into the four-slot buffer, then a get
C8_Witness ==
    /\ ~flushed /\ nRx = 5 /\ rxDropped = 2 /\ Len(rxEnq) = 3 /\ Len(rxOut) = 1
    /\ pc = "idle"
    /\ ret = [op |-> "get", val |-> UART_BUFFER_OVERFLOW + rxEnq[1]]

\* C9: get on an empty buffer returns UART_NO_DATA at once and writes
\* nothing of the receive side; get on a non-empty buffer goes on to advance
\* the tail by one and returns a value other than UART_NO_DATA.
C9_GetOnEmpty ==
    [][/\ CharGet_Check =>
            IF UART_RxHead = UART_RxTail
            THEN /\ pc' = "idle" /\ ret' = [op |-> "get", val |-> UART_NO_DATA]
                 /\ UNCHANGED rxvars
            ELSE pc' = "get_tail" /\ UNCHANGED <<ret, rxvars>>
       /\ CharGet_Tail =>
            /\ UART_RxTail' = RxNextIndex(UART_RxTail)
            /\ UNCHANGED <<UART_RxHead, UART_RxBuf, UART_LastRxError>>
       /\ (pc \in GetPcs /\ pc' = "idle") =>
            /\ ret'.op = "get" /\ ret'.val # UART_NO_DATA
            /\ BitAnd(ret'.val, UART_NO_DATA) = 0
            /\ Len(rxOut') = Len(rxOut) + 1
       /\ (pc \in GetPcs /\ pc' # pc) => pc' \in GetPcs \cup {"idle"}]_vars

\* a get finds the buffer empty after bytes went through it
C9_Witness ==
    /\ pc = "idle" /\ ret = [op |-> "get", val |-> UART_NO_DATA]
    /\ UART_RxHead = UART_RxTail /\ UART_RxHead # 0 /\ Len(rxOut) >= 1

\* C10: the blocking put terminates.  Under fair servicing of the enabled
\* transmit-ready interrupt every put returns; the interrupt is enabled
\* whenever the transmit buffer is full, so whenever a put waits; a put that
\* starts on a buffer that is not full never waits.
C10_PutTerminates ==
    /\ (pc \in PutPcs) ~> (pc \notin PutPcs)
    /\ []((TxLive = UART_TX_BUFFER_SIZE - 1 \/ (pc = "put_wait" /\ tmphead = UART_TxTail))
             => (SREG_I /\ "UDRIE" \in UART_CONTROL))
    /\ []((pc = "put_wait" /\ TxLive < UART_TX_BUFFER_SIZE - 1) =>
             tmphead # UART_TxTail)

\* a put spins on a full buffer
C10_Witness ==
    /\ pc = "put_wait" /\ tmphead = UART_TxTail
    /\ Len(txIn) = UART_TX_BUFFER_SIZE /\ Len(txOut) = 0


\* C11: UART_StringPutNonBlocking puts each character of its string once,
\* in order, and not the terminator: during the call the only bytes handed to
\* put are the next characters of the string, it returns when only the
\* terminator is left (at once for the empty string), and under fair
\* servicing of the transmit interrupt it returns even when the string is
\* longer than the free space.
C11_StringPut ==
    /\ [](strArg # <<>> =>
            LET done == Len(strArg) - Len(s)
            IN  /\ Len(s) >= 1 /\ s = SubSeq(strArg, done + 1, Len(strArg))
                /\ done <= Len(txIn)
                /\ SubSeq(txIn, Len(txIn) - done + 1, Len(txIn)) = SubSeq(strArg, 1, done)
                /\ pc \in PutPcs \cup {"str_loop"})
    /\ [][strArg # <<>> =>
            \/ txIn' = txIn /\ (strArg' = <<>> => Head(s) = 0 /\ pc' = "idle")
            \/ /\ Head(s) # 0 /\ txIn' = Append(txIn, Head(s)) /\ s' = Tail(s)
               /\ strArg' = strArg]_vars
    /\ [][(strArg = <<>> /\ strArg' = <<0>>) => (pc' = "str_loop" /\ txIn' = txIn)]_vars
    /\ (strArg # <<>>) ~> (strArg = <<>>)

\* the fourth character of a four-character string waits for a slot
C11_Witness ==
    /\ strArg = <<65, 66, 66, 65, 0>> /\ s = <<0>>
    /\ pc = "put_wait" /\ tmphead = UART_TxTail /\ caller = "string"


\* C12: result encoding of get.  A value that carries a byte has the byte
\* read from the buffer in its low 8 bits and, above them, only the flags
\* UART_FRAME_ERROR, UART_OVERRUN_ERROR and UART_BUFFER_OVERFLOW, each set
\* exactly when the last receive event recorded that condition; the
\* UART_NO_DATA bit is not set in it.
C12_ResultEncoding ==
    [][CharGet_Return =>
         LET v == ret'.val
             flags == UART_FRAME_ERROR + UART_OVERRUN_ERROR + UART_BUFFER_OVERFLOW
         IN  /\ BitAnd(v, 255) = data
             /\ BitAnd(v, 65535 - 255 - flags) = 0
             /\ (BitAnd(v, UART_FRAME_ERROR) # 0) <=> lastRec.fe
             /\ (BitAnd(v, UART_OVERRUN_ERROR) # 0) <=> lastRec.dor
             /\ (BitAnd(v, UART_BUFFER_OVERFLOW) # 0) <=> lastRec.ovf
             /\ BitAnd(v, UART_NO_DATA) = 0]_vars


\* C13: single-writer ownership.  After initialization a step that changes
\* RxHead is a step of the receive handler, one that changes TxTail a step of
\* the transmit handler, and one that changes RxTail or TxHead a step of the
\* main context.
C13_SingleWriter ==
    [][pc \notin {"start", "init_control", "init_sei"} =>
         LET handler == UART_RECEIVE_INTERRUPT \/ UART_TRANSMIT_INTERRUPT
         IN  /\ UART_RxHead' # UART_RxHead => UART_RECEIVE_INTERRUPT
             /\ UART_TxTail' # UART_TxTail => UART_TRANSMIT_INTERRUPT
             /\ UART_RxTail' # UART_RxTail => ~handler
             /\ UART_TxHead' # UART_TxHead => ~handler]_vars


\* C14: byte conservation on the receive side.  With no flush, the number
\* of bytes the hardware presented equals the number dropped for overflow
\* plus the number delivered by get (the byte of a get that has advanced the
\* tail counts as delivered) plus the number still buffered.
C14_Conservation ==
    ~flushed =>
        LET delivered == Len(rxOut) + (IF pc \in {"get_data", "get_ret"} THEN 1 ELSE 0)
            buffered == (UART_RxHead - UART_RxTail) % UART_RX_BUFFER_SIZE
        IN  nRx = rxDropped + delivered + buffered

\* bytes dropped, delivered and still buffered, head wrapped below tail
C14_Witness ==
    /\ ~flushed /\ pc = "idle"
    /\ rxDropped >= 1 /\ Len(rxOut) >= 2 /\ UART_RxHead < UART_RxTail
    /\ nRx = MaxRx


\* the value the most recent receive event computed for the error scalar:
\* the overflow code on a drop, the masked status bits on a store
LastEventError ==
    IF lastRec.ovf THEN Shr(UART_BUFFER_OVERFLOW, 8)
    ELSE (IF lastRec.fe THEN Pow2(FE) ELSE 0) + (IF lastRec.dor THEN Pow2(DOR) ELSE 0)

\* C15: last-observed error semantics.  The error scalar always holds the
\* value computed by the most recent receive event (store or drop); no step
\* other than a receive event changes it; the error part of a successful
\* get is that value, and the get leaves the scalar as it was.
C15_LastObservedError ==
    /\ [](UART_LastRxError = LastEventError)
    /\ [][nRx' = nRx => UART_LastRxError' = UART_LastRxError]_vars
    /\ [][CharGet_Return =>
            /\ Shr(ret'.val, 8) = LastEventError
            /\ UART_LastRxError' = UART_LastRxError]_vars

\* a second get about to report the overflow the first get reported, no
\* byte having been stored since (a store would have cleared lastRec.ovf)
C15_Witness ==
    /\ pc = "get_ret" /\ Len(rxOut) = 1 /\ ~getSnap.rx /\ ~flushed
    /\ ret = [op |-> "get", val |-> UART_BUFFER_OVERFLOW + rxOut[1]]
    /\ lastRec.ovf /\ UART_LastRxError = Shr(UART_BUFFER_OVERFLOW, 8)


\* C16: transmit-interrupt arming.  The transmit-ready interrupt is turned
\* off only by a transmit-handler step that found TxHead = TxTail; the last
\* step of every put leaves it on; and whenever the transmit buffer is not
\* empty and no put is between its head store and its enable, it is on.
C16_Arming ==
    /\ [](UART_TxHead # UART_TxTail /\ pc \notin {"put_rdctl", "put_wrctl"}
            => "UDRIE" \in UART_CONTROL)
    /\ [][("UDRIE" \in UART_CONTROL /\ "UDRIE" \notin UART_CONTROL')
            => (UART_TRANSMIT_INTERRUPT /\ UART_TxHead = UART_TxTail)]_vars
    /\ [][(pc \in PutPcs /\ pc' \notin PutPcs)
            => (pc = "put_wrctl" /\ "UDRIE" \in UART_CONTROL')]_vars

\* two bytes pending after the handler has already sent one, interrupt on
C16_Witness ==
    /\ pc = "idle" /\ UART_TxHead # UART_TxTail /\ TxLive = 2 /\ Len(txOut) >= 1
    /\ "UDRIE" \in UART_CONTROL


\* nothing left to send and the transmit-ready interrupt off
TxQuiescent ==
    /\ UART_TxHead = UART_TxTail /\ "UDRIE" \notin UART_CONTROL
    /\ txOut = txIn

\* C17: transmit liveness.  Under fair servicing of the enabled
\* transmit-ready interrupt, the k-th byte accepted by put is eventually the
\* k-th byte written to UART_DATA; whenever the main context is outside put,
\* either it calls again or the buffer drains and the interrupt goes off;
\* and, the number of puts being finite, the system ends with everything
\* sent, the buffer empty and the interrupt off.
C17_TransmitLiveness ==
    /\ \A k \in 1..MaxPut :
          (Len(txIn) >= k) ~> (Len(txOut) >= k /\ txOut[k] = txIn[k])
    /\ (pc = "idle") ~> (pc # "idle" \/ TxQuiescent)
    /\ <>[]TxQuiescent

\* everything accepted has been sent, more than one buffer's worth, and the
\* interrupt is off again
C17_Witness ==
    /\ pc = "idle" /\ TxQuiescent
    /\ Len(txOut) > UART_TX_BUFFER_SIZE


\* C18 as stated: the first get that starts after a drop, with no flush
\* in between, returns the overflow flag whatever receive interrupts
\* interleave with it.
C18_OverflowReported ==
    [][(CharGet_Return /\ getSnap.drop) =>
          BitAnd(ret'.val, UART_BUFFER_OVERFLOW) # 0]_vars

\* C18, amended: the first get that starts after a drop, with no flush in
\* between, returns the overflow flag exactly when the most recent receive
\* event before its read of the error scalar was a drop.  When it starts on
\* the still-full buffer with the drop as last receive event and no receive
\* interrupt arrives after its tail advance, it returns the oldest byte with
\* the flag (interrupts before the tail advance are further drops); the first
\* receive interrupt after the tail advance stores its byte and replaces the
\* overflow code in the scalar.
C18_OverflowReportedUnlessOverwritten ==
    /\ [][(CharGet_Return /\ getSnap.drop) =>
            ((BitAnd(ret'.val, UART_BUFFER_OVERFLOW) # 0) <=> lastRec.ovf)]_vars
    /\ [][(CharGet_Return /\ getSnap.drop /\ getSnap.ov /\ ~getSnap.late) =>
            ret'.val = UART_BUFFER_OVERFLOW + rxEnq[Len(rxOut) + 1]]_vars
    /\ [][(UART_RECEIVE_INTERRUPT /\ pc \in {"get_data", "get_ret"}
             /\ getSnap.ov /\ ~getSnap.late) =>
            (UART_RxHead' # UART_RxHead /\ ~lastRec'.ovf
             /\ UART_LastRxError' # Shr(UART_BUFFER_OVERFLOW, 8))]_vars

\* the first get after a drop, preempted by a receive interrupt before its
\* tail advance only, about to return the overflow flag
C18_Witness ==
    /\ pc = "get_ret" /\ getSnap.drop /\ getSnap.ov /\ getSnap.rx /\ ~getSnap.late
    /\ UART_LastRxError = Shr(UART_BUFFER_OVERFLOW, 8)


\* slots whose byte has been stored and published and not yet consumed
RxLiveSlots == {(UART_RxTail + k) % UART_RX_BUFFER_SIZE : k \in 1..RxLive}
TxLiveSlots == {(UART_TxTail + k) % UART_TX_BUFFER_SIZE : k \in 1..TxLive}

\* C19: slot safety under preemption.  Every live slot holds the byte
\* that was stored for it (nothing overwrote it); the slot a get is about to
\* read, and the value it has read, is the oldest unreturned byte; the slot a
\* put has stored and not yet published holds its byte.  A receive handler
\* that stores writes neither index RxTail nor a live slot; a transmit
\* handler that sends reads a published slot, never the slot of a put that
\* is between its store and its head store; a put stores outside the live
\* slots.
C19_SlotSafety ==
    /\ [](/\ \A k \in 1..RxLive :
               UART_RxBuf[(UART_RxTail + k) % UART_RX_BUFFER_SIZE]
                 = rxEnq[Len(rxEnq) - RxLive + k]
          /\ \A k \in 1..TxLive :
               UART_TxBuf[(UART_TxTail + k) % UART_TX_BUFFER_SIZE]
                 = txIn[Len(txOut) + k]
          /\ pc = "get_data" =>
               (tmptail = UART_RxTail /\ UART_RxBuf[tmptail] = rxEnq[Len(rxEnq) - RxLive])
          /\ pc = "get_ret" => data = rxEnq[Len(rxEnq) - RxLive]
          /\ pc = "put_head" =>
               (UART_TxBuf[tmphead] = txIn[Len(txIn)] /\ tmphead \notin TxLiveSlots))
    /\ [][(UART_RECEIVE_INTERRUPT /\ UART_RxHead' # UART_RxHead) =>
            /\ UART_RxHead' # UART_RxTail
            /\ UART_RxHead' \notin RxLiveSlots
            /\ \A i \in 0..UART_RX_BUFFER_MASK :
                  i # UART_RxHead' => UART_RxBuf'[i] = UART_RxBuf[i]]_vars
    /\ [][(UART_TRANSMIT_INTERRUPT /\ txOut' # txOut) =>
            /\ UART_TxTail' \in TxLiveSlots
            /\ pc = "put_head" => UART_TxTail' # tmphead]_vars
    /\ [][CharPut_Store => tmphead \notin TxLiveSlots]_vars

\* a receive interrupt has refilled the buffer between a get's tail advance
\* and its slot read; the slot still holds the byte the get will return
C19_Witness ==
    /\ pc = "get_data" /\ getSnap.late
    /\ RxNextIndex(UART_RxHead) = UART_RxTail
    /\ UART_RxBuf[tmptail] = rxEnq[Len(rxOut) + 1]
    /\ UART_RxBuf[UART_RxHead] # UART_RxBuf[tmptail]


InitPcs == {"start", "init_control", "init_sei"}

IndicesZero ==
    /\ UART_TxHead = 0 /\ UART_TxTail = 0
    /\ UART_RxHead = 0 /\ UART_RxTail = 0

\* C20: initialisation order.  While UART_Init runs, global interrupts
\* are off and no handler has run; the step that enables the receive-complete
\* interrupt and the step that enables global interrupts both find the four
\* indices zero, and the transmit-ready interrupt is off when UART_Init
\* returns; a get right after UART_Init, no byte having arrived, returns
\* UART_NO_DATA and UART_CharsAvail returns 0.
C20_InitOrder ==
    /\ [](pc \in InitPcs =>
            (~SREG_I /\ nRx = 0 /\ txOut = <<>> /\ "UDRIE" \notin UART_CONTROL))
    /\ []((pc \in InitPcs /\ "RXCIE" \in UART_CONTROL) => IndicesZero)
    /\ [][("RXCIE" \notin UART_CONTROL /\ "RXCIE" \in UART_CONTROL') =>
            (UART_Init_Control /\ IndicesZero /\ ~SREG_I')]_vars
    /\ [][(~SREG_I /\ SREG_I') =>
            (UART_Init_Sei /\ IndicesZero /\ pc' = "idle"
             /\ UART_CONTROL' = {"RXCIE", "RXEN", "TXEN"})]_vars
    /\ [][(UART_RECEIVE_INTERRUPT \/ UART_TRANSMIT_INTERRUPT) => pc \notin InitPcs]_vars
    /\ [][(CharGet_Check /\ ret.op = "init" /\ nRx = 0) =>
            (ret'.val = UART_NO_DATA /\ pc' = "idle")]_vars
    /\ [][(UART_CharsAvail /\ ret.op = "init" /\ nRx = 0) => ret'.val = 0]_vars

\* UART_Init has returned, nothing has been received or sent, and a get has
\* returned UART_NO_DATA
C20_Witness ==
    /\ pc = "idle" /\ SREG_I /\ nRx = 0 /\ nPut = 0 /\ ~flushed
    /\ IndicesZero /\ UART_CONTROL = {"RXCIE", "RXEN", "TXEN"}
    /\ ret = [op |-> "get", val |-> UART_NO_DATA]

====
